---- MODULE Spec2Model ----
\* A model of Collaborations/medRxiv-bot/medRxiv_Bot.py: the ledger of
\* processed titles, the paginated fetch, the H-index ranking and the
\* per-paper publish loop of main().
EXTENDS Integers, Sequences, FiniteSets, TLC

\* ---------------------------------------------------------------- bounds
MaxLen == 2        \* records in the preprint source's collection
MaxPage == 2       \* records the source puts in one page
MaxRuns == 2       \* runs of main() sharing one ledger file
MaxAuthors == 2    \* authors the bibliographic lookup returns for a paper
MaxRequests == 3   \* page requests followed within one fetch
MaxTotal == 3      \* largest "total" a pagination descriptor reports
MaxCur == 2        \* largest "cursor" a pagination descriptor reports
MaxPapersArg == 2  \* largest max_papers argument drawn for a direct call
MaxFrags == 4      \* fragments an abstract is put together from
MaxPieces == 4     \* pieces a text given to the bullet formatter is put together from

\* ------------------------------------------------------ program constants
MIN_H_INDEX == 10
max_hypotheses == 10

\* ------------------------------------------------------------ text values
\* A title is a sequence of one-character strings; <<>> is the empty title
\* (paper.get("title") yielding None or "" is the same falsy value to the code).
WS == {" ", "\n"}
T_a == <<"a">>
T_a_sp == <<"a", " ">>
T_b == <<"b">>
Missing == "<missing>"
NoH == -1          \* "no value": a key that is absent, or a lookup returning None

SeqsUpTo(S, n) == UNION {[1..k -> S] : k \in 0..n}
Range(s) == {s[k] : k \in 1..Len(s)}
Min2(a, b) == IF a <= b THEN a ELSE b

RECURSIVE LStrip(_)
LStrip(s) == IF s # <<>> /\ Head(s) \in WS THEN LStrip(Tail(s)) ELSE s

RECURSIVE RStrip(_)
RStrip(s) ==
    IF s # <<>> /\ s[Len(s)] \in WS THEN RStrip(SubSeq(s, 1, Len(s) - 1)) ELSE s

\* str.strip()
Strip(s) == RStrip(LStrip(s))

\* the lines a text file yields when iterated: each ends at its "\n"
RECURSIVE FileLines(_)
FileLines(f) ==
    IF f = <<>> THEN <<>>
    ELSE LET nl == {k \in 1..Len(f) : f[k] = "\n"}
         IN  IF nl = {} THEN <<f>>
             ELSE LET k == CHOOSE x \in nl : \A y \in nl : x <= y
                  IN  <<SubSeq(f, 1, k)>> \o FileLines(SubSeq(f, k + 1, Len(f)))

\* load_titles(): set(line.strip() for line in f)
LoadedTitles(f) == {Strip(l) : l \in Range(FileLines(f))}

\* save_title(title): f.write(title.strip() + "\n"), opened for append
SavedFile(f, title) == f \o Strip(title) \o <<"\n">>

\* ---------------------------------------------------------------- records
Paper(t, d, a) == [title |-> t, doi |-> d, abstract |-> a, max_h_index |-> NoH]

PaperSet ==
    { Paper(T_a, "10.1/x", "text"),
      Paper(T_a_sp, "10.1/x", "text"),
      Paper(T_b, "10.1/y", Missing),
      Paper(<<>>, "10.1/y", "text"),
      Paper(T_b, "", "text") }

TitleSet == {p.title : p \in PaperSet}

\* the records drawn for a direct call of the ranking
RankInputs ==
    { Paper(T_a, "10.1/x", "text"), Paper(T_b, "10.1/y", Missing), Paper(T_b, "", "text") }

VARIABLES
    file,               \* content of processed_titles.txt, a character sequence
    processed_titles,   \* the global in-memory set
    pc,                 \* where main() stands
    run,                \* number of the current run of main()
    collection,         \* the records the preprint source holds
    cursor,             \* fetch_medrxiv: cursor of the next request
    all_fetched_papers, \* fetch_medrxiv: the accumulated records
    log,                \* history: the requests of this fetch and their responses
    papers,             \* main: the fetched list, then the ranked list
    min_h_index,        \* rank_valid_papers_by_hindex: argument
    max_papers,         \* rank_valid_papers_by_hindex: argument
    i,                  \* rank_valid_papers_by_hindex: index of the next paper
    valid_papers,       \* rank_valid_papers_by_hindex: the candidates
    authors_data,       \* rank_valid_papers_by_hindex: the authors of the paper at i
    lastRank,           \* history: the lookups of the latest ranking iteration
                        \* (unasked: authors with an id were left without one)
    idx,                \* main: index of the next ranked paper
    success_count,      \* main: the counter
    calls,              \* history: the process_paper calls of this run
    published,          \* history: successful publishes per title, all runs
    recorded,           \* history: titles that process_paper recorded, all runs
    ledgerWriteLost,    \* history: a publish succeeded and save_title raised
    abstract_text,      \* format_abstract_paragraphs: argument
    sentences,          \* the formatters: the sentences the text was split into
    si,                 \* format_abstract_paragraphs: i + 1, index of the next sentence
    formatted,          \* format_abstract_paragraphs: the output lines so far
    scanned,            \* history: the iterations of the scan
    text,               \* format_results_paragraph: argument
    rendered            \* the formatters: the returned string

vars == <<file, processed_titles, pc, run, collection, cursor, all_fetched_papers,
          log, papers, min_h_index, max_papers, i, valid_papers, authors_data,
          lastRank, idx,
          success_count, calls, published, recorded, ledgerWriteLost,
          abstract_text, sentences, si, formatted, scanned, text, rendered>>

ledgerVars == <<file, processed_titles>>
fetchVars == <<cursor, all_fetched_papers, log>>
rankVars == <<min_h_index, max_papers, i, valid_papers, authors_data, lastRank>>
loopVars == <<idx, success_count, calls>>
histVars == <<published, recorded, ledgerWriteLost>>
formatVars == <<abstract_text, sentences, si, formatted, scanned, text, rendered>>

NoRank == [looked |-> FALSE, hLookups |-> 0, added |-> FALSE, unasked |-> FALSE,
           paper |-> Paper(<<>>, "", Missing)]


\* ------------------------------------------------------------- the ledger
\* main, line 433: load_titles() at the start of a process, then the fetch begins
Load ==
    /\ pc = "start"
    /\ processed_titles' = LoadedTitles(file)
    /\ pc' = "fetch"
    /\ cursor' = 0
    /\ all_fetched_papers' = <<>>
    /\ log' = <<>>
    /\ UNCHANGED <<file, run, collection, papers, rankVars, loopVars, histVars>>
    /\ UNCHANGED formatVars

\* -------------------------------------------------------------- the fetch
\* The page the source holds at offset c, at most s records long.
PageAt(c, s) ==
    IF c >= Len(collection) THEN <<>>
    ELSE SubSeq(collection, c + 1, Min2(c + s, Len(collection)))

\* A response: kind "error" is a failed request (timeout, bad status, a body
\* that does not decode); otherwise a page and a pagination descriptor, which is
\* "none" (no messages), "nofields" (total or cursor absent), "nonint" (int()
\* raises ValueError), "malformed" (another exception while it is read) or "num".
Response(k, p, d, t, c) == [kind |-> k, page |-> p, desc |-> d, total |-> t, cur |-> c]

\* a source that serves the collection in pages and describes them truthfully
HonestResponses ==
    {Response("ok", PageAt(cursor, s), "num", Len(collection), cursor) : s \in 1..MaxPage}

AnyResponses ==
    {Response("error", <<>>, "none", 0, 0)}
    \cup {Response("ok", PageAt(cursor, s), d, 0, 0) :
            s \in 0..MaxPage, d \in {"none", "nofields", "nonint", "malformed"}}
    \cup {Response("ok", PageAt(cursor, s), "num", t, c) :
            s \in 0..MaxPage, t \in 0..MaxTotal, c \in 0..MaxCur}

Accumulated_DropOnError(all, r) == IF r.kind = "error" THEN <<>> ELSE all \o r.page

\* lines 384 and 415-423: what the list holds when the response has been handled
Accumulated(all, r) == IF r.kind = "error" THEN all ELSE all \o r.page

FetchStops_Strict(r) ==
    \/ r.kind = "error"
    \/ r.page = <<>>
    \/ r.desc # "num"
    \/ r.cur + Len(r.page) > r.total

\* lines 381-423: the breaks of the loop
FetchStops(r) ==
    \/ r.kind = "error"
    \/ r.page = <<>>
    \/ r.desc # "num"
    \/ r.cur + Len(r.page) >= r.total

NextCursor_Stuck(r) == r.cur

\* line 404
NextCursor(r) == r.cur + Len(r.page)

\* One turn of the while loop of fetch_medrxiv; on a break the function
\* returns and main tests the list (lines 443-448).
FetchStep(R) ==
    /\ pc = "fetch"
    /\ Len(log) < MaxRequests
    /\ \E r \in R :
         LET acc == Accumulated(all_fetched_papers, r)
         IN  /\ log' = Append(log, [cursor |-> cursor, resp |-> r])
             /\ all_fetched_papers' = acc
             /\ IF FetchStops(r)
                THEN /\ cursor' = cursor
                     /\ papers' = acc
                     /\ pc' = IF acc = <<>> THEN "nopapers" ELSE "rank"
                     /\ min_h_index' = MIN_H_INDEX
                     /\ max_papers' = max_hypotheses
                     /\ i' = 1
                     /\ valid_papers' = <<>>
                     /\ authors_data' = <<>>
                     /\ lastRank' = NoRank
                ELSE /\ cursor' = NextCursor(r)
                     /\ UNCHANGED <<papers, pc, rankVars>>
    /\ UNCHANGED <<ledgerVars, run, collection, loopVars, histVars>>
    /\ UNCHANGED formatVars


\* ------------------------------------------------------------ the ranking
\* One author of the bibliographic answer: authorId may be absent (""), and h
\* is what get_author_hindex returns for the author (NoH: None).
HVals == {5, 15}
AuthorSet ==
    {[authorId |-> "", h |-> NoH]} \cup {[authorId |-> "A", h |-> x] : x \in {NoH} \cup HVals}

\* get_authors_from_doi: a failed lookup (None) or a list of authors
AuthorsOutcomes ==
    {[ok |-> FALSE, authors |-> <<>>]}
    \cup {[ok |-> TRUE, authors |-> a] : a \in SeqsUpTo(AuthorSet, MaxAuthors)}

\* lines 158-159
RankSkips_NoLedger(paper, titles) == paper.title = <<>> \/ paper.doi = ""

RankSkips(paper, titles) ==
    paper.title = <<>> \/ paper.doi = "" \/ paper.title \in titles

\* line 171
Qualifies_Strict(h, min) == h > min

Qualifies(h, min) == h >= min

\* lines 166-174: the authors from position k on, n lookups issued so far
RECURSIVE ScanAuthors(_, _, _, _)
ScanAuthors(authors, k, min, n) ==
    IF k > Len(authors) THEN [found |-> FALSE, h |-> NoH, hLookups |-> n]
    ELSE IF authors[k].authorId = "" THEN ScanAuthors(authors, k + 1, min, n)
    ELSE IF authors[k].h # NoH /\ Qualifies(authors[k].h, min)
         THEN [found |-> TRUE, h |-> authors[k].h, hLookups |-> n + 1]
         ELSE ScanAuthors(authors, k + 1, min, n + 1)

\* list.sort(key=max_h_index, reverse=True): stable, descending
InsertDesc_BeforeTies(t, x) ==
    LET k == Cardinality({j \in 1..Len(t) : t[j].max_h_index > x.max_h_index})
    IN  SubSeq(t, 1, k) \o <<x>> \o SubSeq(t, k + 1, Len(t))

InsertDesc(t, x) ==
    LET k == Cardinality({j \in 1..Len(t) : t[j].max_h_index >= x.max_h_index})
    IN  SubSeq(t, 1, k) \o <<x>> \o SubSeq(t, k + 1, Len(t))

SortDesc_Unsorted(s) == s

RECURSIVE SortDesc(_)
SortDesc(s) ==
    IF s = <<>> THEN <<>>
    ELSE InsertDesc(SortDesc(SubSeq(s, 1, Len(s) - 1)), s[Len(s)])

\* valid_papers[:max_papers], max_papers >= 0
Truncate(s, n) == SubSeq(s, 1, Min2(n, Len(s)))

\* lines 176-180
RankResult(vp, n) == Truncate(SortDesc(vp), n)

\* the return of rank_valid_papers_by_hindex into main (lines 448-451)
RankReturns(vp) ==
    LET result == RankResult(vp, max_papers)
    IN  /\ papers' = result
        /\ pc' = IF result = <<>> THEN "summary" ELSE "loop"
        /\ idx' = 1
        /\ success_count' = 0
        /\ calls' = <<>>

\* the end of one turn of the for loop: the next paper, or the sort, the
\* truncation and the return after the last one
RankAdvance(vp) ==
    /\ valid_papers' = vp
    /\ i' = i + 1
    /\ authors_data' = <<>>
    /\ IF i = Len(papers)
       THEN RankReturns(vp)
       ELSE pc' = "rank" /\ UNCHANGED <<papers, loopVars>>

\* Lines 155-163 for the paper at i: it is skipped, or its authors are looked
\* up; without authors the loop continues with the next paper.
RankLookup ==
    /\ pc = "rank"
    /\ i <= Len(papers)
    /\ LET paper == papers[i]
       IN  IF RankSkips(paper, processed_titles)
           THEN /\ lastRank' = [NoRank EXCEPT !.paper = paper]
                /\ RankAdvance(valid_papers)
           ELSE \E out \in AuthorsOutcomes :
                  IF ~out.ok \/ out.authors = <<>>
                  THEN /\ lastRank' = [NoRank EXCEPT !.paper = paper, !.looked = TRUE]
                       /\ RankAdvance(valid_papers)
                  ELSE /\ authors_data' = out.authors
                       /\ pc' = "scan"
                       /\ lastRank' = NoRank
                       /\ UNCHANGED <<papers, i, valid_papers, loopVars>>
    /\ UNCHANGED <<ledgerVars, run, collection, fetchVars, min_h_index, max_papers,
                   histVars>>
    /\ UNCHANGED formatVars

\* Lines 165-174 for the paper at i: the loop over its authors; authors_data
\* is not read again after it.
RankScan ==
    /\ pc = "scan"
    /\ LET scan == ScanAuthors(authors_data, 1, min_h_index, 0)
           paper == [papers[i] EXCEPT !.max_h_index = scan.h]
           withId == {k \in 1..Len(authors_data) : authors_data[k].authorId # ""}
       IN  /\ lastRank' = [looked |-> TRUE, hLookups |-> scan.hLookups,
                           added |-> scan.found,
                           unasked |-> scan.hLookups < Cardinality(withId),
                           paper |-> paper]
           /\ RankAdvance(IF scan.found THEN Append(valid_papers, paper)
                          ELSE valid_papers)
    /\ UNCHANGED <<ledgerVars, run, collection, fetchVars, min_h_index, max_papers,
                   histVars>>
    /\ UNCHANGED formatVars

\* rank_valid_papers_by_hindex called with an empty list
RankEmpty ==
    /\ pc = "rank"
    /\ papers = <<>>
    /\ RankReturns(valid_papers)
    /\ UNCHANGED <<ledgerVars, run, collection, fetchVars, rankVars, histVars>>
    /\ UNCHANGED formatVars

\* ------------------------------------------------------ the per-paper loop
\* What the collaborators answer to one process_paper call.
Env(x, c, e, s) == [extract |-> x, create |-> c, edit |-> e, save |-> s]

\* extract_problem returns a sentence or nothing (None
\* or ""); create_hypothesis an id or None; edit_hypothesis True or
\* False; save_title returns or raises. Each answer is what the collaborator
\* gives if it is asked.
EnvSet ==
    {Env("none", "ok", "ok", "ok"), Env("empty", "ok", "ok", "ok")}
    \cup {Env("ok", c, e, s) : c \in {"ok", "none"}, e \in {"ok", "fail"},
                               s \in {"ok", "raise"}}

Call(o, x, c, e, f, t) ==
    [outcome |-> o, extract |-> x, create |-> c, edit |-> e, file |-> f, titles |-> t]

PublishSucceeded_Either(createOk, editOk) == createOk \/ editOk

\* line 258: the paper is recorded when this holds
PublishSucceeded(createOk, editOk) == createOk /\ editOk

AddTitle_Stripped(titles, title) == titles \cup {Strip(title)}

\* line 261: processed_titles.add(title)
AddTitle(titles, title) == titles \cup {title}

\* process_paper, line 245: `if title in processed_titles`
AlreadyProcessed_Never(title, titles) == FALSE

AlreadyProcessed(title, titles) == title \in titles

\* process_paper, lines 251-255: `if not problem`, for None and for ""
ExtractFailed_NoneOnly(x) == x = "none"

ExtractFailed(x) == x \in {"none", "empty"}

\* process_paper, lines 245-266: the outcome, the calls issued (extract,
\* create, edit: "-" when not called, else the answer) and the ledger after it
ProcessPaper(title, e, f, titles) ==
    IF AlreadyProcessed(title, titles) THEN Call("Skipped", "-", "-", "-", f, titles)
    ELSE IF ExtractFailed(e.extract)
         THEN Call("ProblemFailed", e.extract, "-", "-", f, titles)
    ELSE LET edit == IF e.create = "ok" THEN e.edit ELSE "-"
         IN  IF ~PublishSucceeded(e.create = "ok", edit = "ok")
             THEN Call("PublishFailed", e.extract, e.create, edit, f, titles)
             ELSE IF e.save # "ok"
                  THEN Call("SaveRaised", e.extract, e.create, edit, f, titles)
                  ELSE Call("Published", e.extract, e.create, edit, SavedFile(f, title),
                            AddTitle(titles, title))

\* lines 452-461: a subscript of the record or the structuring of its abstract
\* raises when the field is absent or null
BuildSummaryRaises(item) == item.abstract = Missing

\* the exception leaves main: the process ends
MainAborts(item) == BuildSummaryRaises(item)

\* main, lines 463-467: the call counts when the in-memory set has grown
Counted_Always(before, after) == TRUE

Counted(before, after) == Cardinality(after) > Cardinality(before)

\* One turn of the for loop of main, lines 451-467; after the last turn the
\* summary is printed (line 469).
PaperStep ==
    /\ pc = "loop"
    /\ idx <= Len(papers)
    /\ lastRank' = NoRank
    /\ LET item == papers[idx]
       IN  IF MainAborts(item)
           THEN /\ pc' = "aborted"
                /\ UNCHANGED <<ledgerVars, loopVars, histVars>>
           ELSE \E e \in EnvSet :
                  LET c == ProcessPaper(item.title, e, file, processed_titles)
                      both == c.create = "ok" /\ c.edit = "ok"
                  IN  /\ file' = c.file
                      /\ processed_titles' = c.titles
                      /\ success_count' =
                            IF Counted(processed_titles, c.titles)
                            THEN success_count + 1 ELSE success_count
                      /\ calls' = Append(calls,
                            [paper |-> item, outcome |-> c.outcome, extract |-> c.extract,
                             create |-> c.create, edit |-> c.edit])
                      /\ published' = IF both
                                      THEN [published EXCEPT ![item.title] = @ + 1]
                                      ELSE published
                      /\ recorded' = IF c.outcome = "Published"
                                     THEN recorded \cup {item.title} ELSE recorded
                      /\ ledgerWriteLost' = (ledgerWriteLost \/ c.outcome = "SaveRaised")
                      /\ idx' = idx + 1
                      /\ pc' = IF idx = Len(papers) THEN "summary" ELSE "loop"
    /\ UNCHANGED <<run, collection, fetchVars, papers, min_h_index, max_papers, i,
                   valid_papers, authors_data>>
    /\ UNCHANGED formatVars

\* A later run: a new process, whose global set starts empty (line 37), over
\* the same ledger file.
NewRun ==
    /\ pc \in {"nopapers", "summary", "aborted"}
    /\ run < MaxRuns
    /\ run' = run + 1
    /\ pc' = "start"
    /\ processed_titles' = {}
    /\ cursor' = 0
    /\ all_fetched_papers' = <<>>
    /\ log' = <<>>
    /\ papers' = <<>>
    /\ i' = 1
    /\ valid_papers' = <<>>
    /\ authors_data' = <<>>
    /\ lastRank' = NoRank
    /\ idx' = 1
    /\ success_count' = 0
    /\ calls' = <<>>
    /\ UNCHANGED <<file, collection, min_h_index, max_papers, histVars>>
    /\ UNCHANGED formatVars

\* ---------------------------------------------------------- the formatting
\* A text is a sequence of tokens: a word ("w" in lower case, "AB" a run of
\* upper-case letters, a section label as written), a punctuation mark or one
\* white-space character.
Punct == {".", "?", "!"}

\* format_results_paragraph, line 275: the six markers, in order
emojis == <<"- pin", "- diamond", "- arrow", "- check", "- memo", "- chart">>

\* format_abstract_paragraphs, lines 285-288
section_labels ==
    <<"Background", "Outcomes of interest", "Objectives", "Objective",
      "Methods and Results", "Methods", "Results", "Conclusions", "Conclusion",
      "Findings">>

\* the words that are runs of two or more upper-case letters: [A-Z]{2,}
UpperRuns == {"AB", "RESULTS"}

\* str.lower(), and the case folding of re.IGNORECASE, over the words drawn
Lower(tok) ==
    CASE tok \in {"Results", "RESULTS"} -> "results"
      [] tok = "Methods" -> "methods"
      [] tok = "AB" -> "ab"
      [] OTHER -> tok

\* the index of the last token of the run of C-tokens that starts at p
RECURSIVE RunEnd(_, _, _)
RunEnd(s, p, C) == IF p < Len(s) /\ s[p + 1] \in C THEN RunEnd(s, p + 1, C) ELSE p

\* str.join
RECURSIVE JoinWith(_, _)
JoinWith(parts, sep) ==
    IF parts = <<>> THEN <<>>
    ELSE IF Len(parts) = 1 THEN parts[1]
    ELSE parts[1] \o sep \o JoinWith(Tail(parts), sep)

\* str.splitlines(): the lines between "\n", with no empty last line
RECURSIVE SplitLines(_)
SplitLines(s) ==
    IF s = <<>> THEN <<>>
    ELSE LET nl == {k \in 1..Len(s) : s[k] = "\n"}
         IN  IF nl = {} THEN <<s>>
             ELSE LET k == CHOOSE x \in nl : \A y \in nl : x <= y
                  IN  <<SubSeq(s, 1, k - 1)>> \o SplitLines(SubSeq(s, k + 1, Len(s)))

\* `.*` at the head of s: the tokens before the first "\n"
TakeLine(s) ==
    LET nl == {k \in 1..Len(s) : s[k] = "\n"}
    IN  IF nl = {} THEN s
        ELSE SubSeq(s, 1, (CHOOSE x \in nl : \A y \in nl : x <= y) - 1)

\* group(..).strip() of a trailing `(\s*)(.*)`: white space is passed over, the
\* rest of that line is taken and trimmed
RestOf(s) == Strip(TakeLine(LStrip(s)))

\* line 273: re.split(r'(?<=[.?!])(?:\s+|$)|\n+', s), from position p with the
\* current piece starting at `start`
RECURSIVE SplitResults(_, _, _)
SplitResults(s, start, p) ==
    IF p > Len(s)
    THEN IF s # <<>> /\ s[Len(s)] \in Punct
         THEN <<SubSeq(s, start, Len(s)), <<>>>>
         ELSE <<SubSeq(s, start, Len(s))>>
    ELSE IF p > 1 /\ s[p - 1] \in Punct /\ s[p] \in WS
    THEN LET q == RunEnd(s, p, WS)
         IN  <<SubSeq(s, start, p - 1)>> \o SplitResults(s, q + 1, q + 1)
    ELSE IF s[p] = "\n"
    THEN LET q == RunEnd(s, p, {"\n"})
         IN  <<SubSeq(s, start, p - 1)>> \o SplitResults(s, q + 1, q + 1)
    ELSE SplitResults(s, start, p + 1)

\* line 279: emojis[i % len(emojis)], i counted from 0
MarkerOf_First(k) == emojis[1]

MarkerOf(k) == emojis[(k % Len(emojis)) + 1]

\* lines 277-280: the bullets of the sentences ss from index k (1-based) on
RECURSIVE Bullets(_, _)
Bullets(ss, k) ==
    IF k > Len(ss) THEN <<>>
    ELSE (IF ss[k] # <<>> THEN <<<<MarkerOf(k - 1), " ">> \o Strip(ss[k])>> ELSE <<>>)
         \o Bullets(ss, k + 1)

\* format_results_paragraph(text)
format_results_paragraph(t) == JoinWith(Bullets(SplitResults(t, 1, 1), 1), <<"\n">>)

\* a call of format_results_paragraph on `text`
FormatResults ==
    /\ pc = "bullets"
    /\ sentences' = SplitResults(text, 1, 1)
    /\ rendered' = format_results_paragraph(text)
    /\ pc' = "bulleted"
    /\ UNCHANGED <<ledgerVars, run, collection, fetchVars, papers, rankVars, loopVars,
                   histVars, abstract_text, si, formatted, scanned, text>>

\* line 289: re.split(r'(?<=[.?!])\s+', s)
RECURSIVE SplitSentences(_, _, _)
SplitSentences(s, start, p) ==
    IF p > Len(s) THEN <<SubSeq(s, start, Len(s))>>
    ELSE IF p > 1 /\ s[p - 1] \in Punct /\ s[p] \in WS
    THEN LET q == RunEnd(s, p, WS)
         IN  <<SubSeq(s, start, p - 1)>> \o SplitSentences(s, q + 1, q + 1)
    ELSE SplitSentences(s, start, p + 1)

\* lines 296 and 312: the sentence starts with a section label, in any case
MatchLabel(s) ==
    s # <<>> /\ \E k \in 1..Len(section_labels) : Lower(section_labels[k]) = Lower(s[1])

\* line 304: label.lower() == "results"
IsResultsLabel(label) == Lower(label) = "results"

\* what follows the label and its optional colon
AfterLabel(s) == IF Len(s) >= 2 /\ s[2] = ":" THEN SubSeq(s, 3, Len(s)) ELSE Tail(s)

\* line 326: r'^(.*?:)(\s*)(.*)': the first colon, when its line is the first
ColonAt(s) ==
    LET cs == {k \in 1..Len(TakeLine(s)) : s[k] = ":"}
    IN  IF cs = {} THEN 0 ELSE CHOOSE x \in cs : \A y \in cs : x <= y

MatchColon(s) == ColonAt(s) > 0

\* line 327: r'^([A-Z]{2,})(\s+)(.*)'
MatchUpper(s) == Len(s) >= 2 /\ s[1] \in UpperRuns /\ s[2] \in WS

\* lines 299, 329, 337
Bold(s) == <<"**">> \o s \o <<"**">>

\* lines 310-316: the index of the first sentence from j on that starts with a
\* label, Len(ss) + 1 when there is none
RECURSIVE NextLabel(_, _)
NextLabel(ss, j) ==
    IF j > Len(ss) \/ MatchLabel(ss[j]) THEN j ELSE NextLabel(ss, j + 1)

\* lines 297, 304, 328, 336, 344: the branch taken for a sentence
RuleFor_UpperFirst(s) ==
    IF MatchLabel(s) THEN (IF IsResultsLabel(s[1]) THEN "results" ELSE "label")
    ELSE IF MatchUpper(s) THEN "upper"
    ELSE IF MatchColon(s) THEN "colon"
    ELSE "plain"

RuleFor(s) ==
    IF MatchLabel(s) THEN (IF IsResultsLabel(s[1]) THEN "results" ELSE "label")
    ELSE IF MatchColon(s) THEN "colon"
    ELSE IF MatchUpper(s) THEN "upper"
    ELSE "plain"

WithRest(head, rest) == IF rest # <<>> THEN head \o <<rest>> ELSE head

\* lines 310-316: the sentences after the Results label sentence at k that the
\* inner loop collects
Following(ss, k) == SubSeq(ss, k + 1, NextLabel(ss, k + 1) - 1)

\* lines 306-316: the sentences a Results block holds, label sentence at k
ResultsBlock(ss, k) == WithRest(<<>>, RestOf(AfterLabel(ss[k]))) \o Following(ss, k)

\* lines 309, 316, 322, 346: i += 1 for the sentence at k and for each sentence
\* the inner loop collected
NextIndex_Stays(k, collected) == k + Len(collected)

NextIndex(k, collected) == k + 1 + Len(collected)

\* one iteration of the loop of lines 293-346 at sentence k: the branch taken,
\* the last sentence it used, the next index and the lines appended
Iteration(ss, k) ==
    LET s == ss[k]
        rule == RuleFor(s)
        header == <<<<>>, Bold(<<s[1], ":">>), <<>>>>
    IN  CASE rule = "results" ->
               [rule |-> rule, upto |-> k + Len(Following(ss, k)),
                next |-> NextIndex(k, Following(ss, k)),
                out |-> header \o SplitLines(format_results_paragraph(
                                      JoinWith(ResultsBlock(ss, k), <<" ">>)))]
          [] rule = "label" ->
               [rule |-> rule, upto |-> k, next |-> NextIndex(k, <<>>),
                out |-> WithRest(header, RestOf(AfterLabel(s)))]
          [] rule = "colon" ->
               [rule |-> rule, upto |-> k, next |-> NextIndex(k, <<>>),
                out |-> WithRest(<<Bold(SubSeq(s, 1, ColonAt(s)))>>,
                                 RestOf(SubSeq(s, ColonAt(s) + 1, Len(s))))]
          [] rule = "upper" ->
               [rule |-> rule, upto |-> k, next |-> NextIndex(k, <<>>),
                out |-> WithRest(<<Bold(<<s[1]>>)>>, RestOf(Tail(s)))]
          [] OTHER ->
               [rule |-> rule, upto |-> k, next |-> NextIndex(k, <<>>), out |-> <<s>>]

\* lines 289-292: the split that opens format_abstract_paragraphs
FormatSplit ==
    /\ pc = "abstract"
    /\ sentences' = SplitSentences(abstract_text, 1, 1)
    /\ si' = 1
    /\ formatted' = <<>>
    /\ pc' = "format"
    /\ UNCHANGED <<ledgerVars, run, collection, fetchVars, papers, rankVars, loopVars,
                   histVars, abstract_text, scanned, text, rendered>>

\* lines 293-347: one iteration of the scan; the last one returns the joined lines
FormatScan ==
    /\ pc = "format"
    /\ si <= Len(sentences)
    /\ LET it == Iteration(sentences, si)
       IN  /\ formatted' = formatted \o it.out
           /\ si' = it.next
           /\ scanned' = Append(scanned, [at |-> si, upto |-> it.upto,
                                          rule |-> it.rule, out |-> it.out])
           /\ IF it.next > Len(sentences)
              THEN pc' = "formatted" /\ rendered' = JoinWith(formatted \o it.out, <<"\n">>)
              ELSE UNCHANGED <<pc, rendered>>
    /\ UNCHANGED <<ledgerVars, run, collection, fetchVars, papers, rankVars, loopVars,
                   histVars, abstract_text, sentences, text>>

\* the pieces the abstracts are put together from
Fragments ==
    { <<"Results", ":", " ">>, <<"RESULTS", " ">>, <<"Methods", ":", " ">>,
      <<"w", ".", " ">>, <<"w", ":", " ">>, <<"AB", " ">>, <<"w", "\n">> }

\* the pieces the texts given to format_results_paragraph are put together from
Pieces ==
    { <<"w", ".", " ">>, <<"w", "!", " ">>, <<"w", "?">>, <<" ">>, <<"\n">>,
      <<"w", "\n", "w", "\n", "w", "\n", "w", "\n", "w", "\n">> }

RECURSIVE Concat(_)
Concat(parts) == IF parts = <<>> THEN <<>> ELSE Head(parts) \o Concat(Tail(parts))

\* ---------------------------------------------------------- specifications
InitCommon ==
    /\ file = <<>>
    /\ run = 1
    /\ cursor = 0
    /\ all_fetched_papers = <<>>
    /\ log = <<>>
    /\ i = 1
    /\ valid_papers = <<>>
    /\ authors_data = <<>>
    /\ lastRank = NoRank
    /\ idx = 1
    /\ success_count = 0
    /\ calls = <<>>
    /\ published = [t \in TitleSet |-> 0]
    /\ recorded = {}
    /\ ledgerWriteLost = FALSE

\* no formatter is running
FormatIdle ==
    /\ abstract_text = <<>>
    /\ sentences = <<>>
    /\ si = 1
    /\ formatted = <<>>
    /\ scanned = <<>>
    /\ text = <<>>
    /\ rendered = <<>>

\* main() started with no ledger file, against a source holding `collection`
Init ==
    /\ InitCommon
    /\ FormatIdle
    /\ pc = "start"
    /\ processed_titles = {}
    /\ papers = <<>>
    /\ min_h_index = MIN_H_INDEX
    /\ max_papers = max_hypotheses
    /\ collection \in SeqsUpTo(PaperSet, MaxLen)

Next ==
    \/ Load
    \/ FetchStep(HonestResponses)
    \/ RankLookup
    \/ RankScan
    \/ PaperStep
    \/ NewRun

Spec == Init /\ [][Next]_vars


\* fetch_medrxiv called against a source that may answer anything
InitFetch ==
    /\ InitCommon
    /\ FormatIdle
    /\ pc = "fetch"
    /\ processed_titles = {}
    /\ papers = <<>>
    /\ min_h_index = MIN_H_INDEX
    /\ max_papers = max_hypotheses
    /\ collection \in SeqsUpTo(PaperSet, MaxLen)

NextFetch == FetchStep(AnyResponses)

SpecFetch == InitFetch /\ [][NextFetch]_vars

\* rank_valid_papers_by_hindex called with any list, ledger and arguments
InitRank ==
    /\ InitCommon
    /\ FormatIdle
    /\ pc = "rank"
    /\ processed_titles \in {{}, {T_a}}
    /\ papers \in SeqsUpTo(RankInputs, MaxLen)
    /\ min_h_index \in HVals
    /\ max_papers \in 0..MaxPapersArg
    /\ collection = <<>>

NextRank == RankLookup \/ RankScan \/ RankEmpty

SpecRank == InitRank /\ [][NextRank]_vars

\* every variable of main() at rest, for a direct call of a formatter
MainIdle ==
    /\ InitCommon
    /\ processed_titles = {}
    /\ papers = <<>>
    /\ min_h_index = MIN_H_INDEX
    /\ max_papers = max_hypotheses
    /\ collection = <<>>

\* format_abstract_paragraphs called with an abstract put together from at most
\* MaxFrags fragments, as it is or with its trailing white space removed
InitFormat ==
    /\ MainIdle
    /\ pc = "abstract"
    /\ abstract_text \in {Concat(fs) : fs \in SeqsUpTo(Fragments, MaxFrags)}
                         \cup {RStrip(Concat(fs)) : fs \in SeqsUpTo(Fragments, MaxFrags)}
    /\ sentences = <<>>
    /\ si = 1
    /\ formatted = <<>>
    /\ scanned = <<>>
    /\ text = <<>>
    /\ rendered = <<>>

NextFormat == FormatSplit \/ FormatScan

SpecFormat == InitFormat /\ [][NextFormat]_vars

\* format_results_paragraph called with a text put together from at most
\* MaxPieces pieces
InitBullets ==
    /\ MainIdle
    /\ pc = "bullets"
    /\ text \in {Concat(ps) : ps \in SeqsUpTo(Pieces, MaxPieces)}
    /\ abstract_text = <<>>
    /\ sentences = <<>>
    /\ si = 1
    /\ formatted = <<>>
    /\ scanned = <<>>
    /\ rendered = <<>>

NextBullets == FormatResults

SpecBullets == InitBullets /\ [][NextBullets]_vars


\* ------------------------------------------------------------------ claims
LastCall == calls[Len(calls)]
NoCalls(c) == c.extract = "-" /\ c.create = "-" /\ c.edit = "-"
BothSucceeded(c) == c.create = "ok" /\ c.edit = "ok"

\* C1: once process_paper has recorded a title, the title is in
\* processed_titles for the rest of that run and, after load_titles() has read
\* the ledger file, in every later run.
C1_RecordedStaysKnown ==
    pc # "start" => \A x \in recorded : x \in processed_titles

\* C2: across the runs that share the ledger file, when no ledger write was
\* lost after a successful publish, no title is successfully published more
\* than once.
C2_PublishedAtMostOnce ==
    ~ledgerWriteLost => \A t \in TitleSet : published[t] <= 1

\* C3: the ledger file and the in-memory set change in the loop of main only
\* in a process_paper call whose create_hypothesis and edit_hypothesis both
\* succeeded; a call in which either failed leaves both unchanged.
C3_LedgerOnlyAfterPublish ==
    [][ (file' # file \/ (pc = "loop" /\ processed_titles' # processed_titles))
          => /\ pc = "loop"
             /\ Len(calls') = Len(calls) + 1
             /\ BothSucceeded(calls'[Len(calls')])
             /\ calls'[Len(calls')].paper.title \in processed_titles'
             /\ file' = file \o Strip(calls'[Len(calls')].paper.title) \o <<"\n">> ]_vars

C3_Witness ==
    /\ calls # <<>>
    /\ LastCall.outcome = "Published"
    /\ file # <<>>
    /\ LastCall.paper.title \in processed_titles

\* C4 as stated: whenever process_paper is called twice in sequence on the
\* same record, the second call is Skipped and issues no call.
C4_SecondCallSkipped ==
    \A k \in 1..(Len(calls) - 1) :
        calls[k].paper = calls[k + 1].paper
            => calls[k + 1].outcome = "Skipped" /\ NoCalls(calls[k + 1])

\* C4 amended: when process_paper is called twice in sequence on the same
\* record and the first call ended Published or Skipped, the second call is
\* Skipped and issues no extraction, create or edit call.
C4_SecondCallSkippedAfterRecorded ==
    \A k \in 1..(Len(calls) - 1) :
        (calls[k].paper = calls[k + 1].paper
         /\ calls[k].outcome \in {"Published", "Skipped"})
            => calls[k + 1].outcome = "Skipped" /\ NoCalls(calls[k + 1])

C4_Witness ==
    \E k \in 1..(Len(calls) - 1) :
        /\ calls[k].paper = calls[k + 1].paper
        /\ calls[k].outcome = "Published"
        /\ calls[k + 1].outcome = "Skipped"

\* C5: an exception raised while one ranked paper is handled is contained to
\* that paper: once the loop of main has been entered, the run ends only after
\* every ranked paper has had its turn, with the success summary.
C5_ExceptionContained ==
    pc \in {"summary", "aborted"} => (pc = "summary" /\ idx = Len(papers) + 1)

\* the accepted pages of the first k requests, in receipt order
RECURSIVE PagesUpTo(_)
PagesUpTo(k) ==
    IF k <= 0 THEN <<>>
    ELSE PagesUpTo(k - 1)
         \o (IF log[k].resp.kind = "ok" THEN log[k].resp.page ELSE <<>>)

\* the source answered every request so far truthfully: a non-empty page of
\* the collection at the requested offset, the collection's size as total and
\* the number of records before the page as cursor
SourceConsistent ==
    \A k \in 1..Len(log) :
        \E s \in 1..MaxPage :
            log[k].resp = Response("ok", PageAt(log[k].cursor, s), "num",
                                   Len(collection), log[k].cursor)

Returned == pc \in {"rank", "nopapers"}

\* C6: against a consistent source fetch_medrxiv returns the concatenation of
\* the pages, which is the whole collection in order, and requests no cursor
\* twice.
C6_ConsistentSourceFetchedOnce ==
    SourceConsistent
        => /\ \A j, k \in 1..Len(log) : j # k => log[j].cursor # log[k].cursor
           /\ Returned => /\ papers = collection
                          /\ papers = PagesUpTo(Len(log))

C6_Witness ==
    /\ SourceConsistent
    /\ Returned
    /\ Len(log) >= 2
    /\ papers = collection

StoppedAfter(k) == k = Len(log) /\ Returned
NextRequested(k) == IF k < Len(log) THEN log[k + 1].cursor ELSE cursor
NoDescriptor(r) == r.desc \in {"none", "nofields"}
Unreadable(r) == r.desc \in {"nonint", "malformed"}
ReachesTotal(r) == r.desc = "num" /\ r.cur + Len(r.page) >= r.total

\* C7 as stated: after a received page the fetch stops exactly when the page
\* is empty, or there is no pagination descriptor, or cursor + page size >=
\* total; otherwise the next request uses cursor + page size; an empty page
\* ends the fetch with the records accumulated so far.
C7_StopsExactlyOnThreeConditions ==
    \A k \in 1..Len(log) :
        LET r == log[k].resp
        IN  r.kind = "ok" =>
              /\ StoppedAfter(k) <=> (r.page = <<>> \/ NoDescriptor(r) \/ ReachesTotal(r))
              /\ ~StoppedAfter(k) => NextRequested(k) = r.cur + Len(r.page)
              /\ (StoppedAfter(k) /\ r.page = <<>>) => papers = PagesUpTo(k - 1)

\* C7 amended: the fetch also stops when the descriptor's total or cursor
\* cannot be read as integers.
C7_StopsOnFourConditions ==
    \A k \in 1..Len(log) :
        LET r == log[k].resp
        IN  r.kind = "ok" =>
              /\ StoppedAfter(k) <=>
                    (r.page = <<>> \/ NoDescriptor(r) \/ ReachesTotal(r) \/ Unreadable(r))
              /\ ~StoppedAfter(k) => NextRequested(k) = r.cur + Len(r.page)
              /\ (StoppedAfter(k) /\ r.page = <<>>) => papers = PagesUpTo(k - 1)

C7_Witness ==
    /\ Len(log) >= 2
    /\ log[1].resp.page # <<>>
    /\ log[2].cursor = log[1].resp.cur + Len(log[1].resp.page)
    /\ log[Len(log)].resp.kind = "ok"
    /\ log[Len(log)].resp.page = <<>>
    /\ Returned
    /\ papers # <<>>

\* the request failed: no usable response, or an exception while the body of
\* a non-empty page was read
RequestFailed(r) == r.kind = "error" \/ (r.desc = "malformed" /\ r.page # <<>>)

\* C8 as stated: when the request for page k fails, no further request is
\* issued and exactly the records of pages 1..k-1 are returned as a value.
C8_FailureReturnsEarlierPages ==
    \A k \in 1..Len(log) :
        RequestFailed(log[k].resp)
            => /\ StoppedAfter(k)
               /\ papers = PagesUpTo(k - 1)

\* C8 amended: the records accumulated so far are returned: pages 1..k-1,
\* and page k's records too when the exception came from the pagination
\* descriptor, after the page's records had been appended.
C8_FailureReturnsAccumulated ==
    \A k \in 1..Len(log) :
        RequestFailed(log[k].resp)
            => /\ StoppedAfter(k)
               /\ all_fetched_papers = papers
               /\ papers = PagesUpTo(k - 1)
                    \o (IF log[k].resp.kind = "error" THEN <<>> ELSE log[k].resp.page)

C8_Witness ==
    /\ Len(log) >= 2
    /\ log[Len(log)].resp.kind = "error"
    /\ pc = "rank"
    /\ papers = PagesUpTo(Len(log) - 1)
    /\ papers # <<>>

RankReturned == pc \in {"loop", "summary"}

\* C9: every paper rank_valid_papers_by_hindex returns has max_h_index >=
\* min_h_index, the list has at most max_papers elements and is in descending
\* order of max_h_index.
C9_RankedListShape ==
    RankReturned
        => /\ \A k \in 1..Len(papers) : papers[k].max_h_index >= min_h_index
           /\ Len(papers) <= max_papers
           /\ \A j, k \in 1..Len(papers) :
                 j < k => papers[j].max_h_index >= papers[k].max_h_index

C9_Witness ==
    /\ RankReturned
    /\ Len(papers) = 2
    /\ papers[1].max_h_index > papers[2].max_h_index
    /\ papers # valid_papers

\* the highest H-index among the authors of a list
MaxH(authors) ==
    LET hs == {authors[k].h : k \in 1..Len(authors)}
    IN  CHOOSE m \in hs : \A x \in hs : x <= m

\* C10: the ranking key attached to a kept paper is the maximum H-index over
\* that paper's authors.
C10_KeyIsMaxOverAuthors ==
    [][ (pc = "scan" /\ lastRank'.added)
          => lastRank'.paper.max_h_index = MaxH(authors_data) ]_vars


\* ------------------------------------------------- claims on the formatting
NonEmpty(ss) == SelectSeq(ss, LAMBDA x : x # <<>>)
IsHeaderOf(out, s) ==
    Len(out) >= 3 /\ SubSeq(out, 1, 3) = <<<<>>, Bold(<<s[1], ":">>), <<>>>>
StartsResults(s) == MatchLabel(s) /\ IsResultsLabel(s[1])
\* the lines the scan has appended are the output, in order
OutputIsScanned == formatted = Concat([k \in 1..Len(scanned) |-> scanned[k].out])
\* what a Results block is to show: the remainder of the label sentence and the
\* sentences after it up to index upto, those that are not empty
BlockWanted(at, upto) ==
    NonEmpty(<<Strip(AfterLabel(sentences[at]))>> \o SubSeq(sentences, at + 1, upto))
IsBulletOf(line, s) ==
    Len(line) >= 2 /\ line[1] \in Range(emojis) /\ line[2] = " "
    /\ SubSeq(line, 3, Len(line)) = Strip(s)

\* C11: a sentence starting with the label Results (any case) puts its
\* remainder and every following sentence up to, but not including, the next
\* label sentence into bullet lines, one per sentence, right after the bold
\* Results header; the scan resumes at that label sentence, which is rendered
\* as a section header.
C11_ResultsBlockBulleted ==
    /\ OutputIsScanned
    /\ \A k \in 1..Len(scanned) :
         LET e == scanned[k]
             bullets == SubSeq(e.out, 4, Len(e.out))
             wanted == BlockWanted(e.at, e.upto)
         IN  StartsResults(sentences[e.at]) =>
               /\ \A j \in (e.at + 1)..e.upto : ~MatchLabel(sentences[j])
               /\ e.upto < Len(sentences) => MatchLabel(sentences[e.upto + 1])
               /\ IsHeaderOf(e.out, sentences[e.at])
               /\ Len(bullets) = Len(wanted)
               /\ \A j \in 1..Len(bullets) : IsBulletOf(bullets[j], wanted[j])
               /\ k < Len(scanned) =>
                     /\ scanned[k + 1].at = e.upto + 1
                     /\ IsHeaderOf(scanned[k + 1].out, sentences[e.upto + 1])

\* the index in `sentences` of the j-th sentence that is not empty
NthKept(j) ==
    CHOOSE k \in 1..Len(sentences) :
        /\ sentences[k] # <<>>
        /\ Cardinality({x \in 1..(k - 1) : sentences[x] # <<>>}) = j - 1
ThreeSentences == <<"w", ".", " ", "w", "!", " ", "w", "?">>

\* C12: format_results_paragraph returns one bullet line per non-empty sentence
\* of its split, in order; the sentence at position i of the split (from 0,
\* empty ones counted) carries marker i mod 6 and its trimmed text; a text of
\* three sentences gives three bullets with the first three markers.
C12_OneBulletPerSentence ==
    pc = "bulleted" =>
        LET lines == SplitLines(rendered)
            kept == {k \in 1..Len(sentences) : sentences[k] # <<>>}
        IN  /\ Len(lines) = Cardinality(kept)
            /\ \A j \in 1..Len(lines) :
                  lines[j] = <<emojis[((NthKept(j) - 1) % 6) + 1], " ">>
                             \o Strip(sentences[NthKept(j)])
            /\ text = ThreeSentences =>
                  lines = << <<emojis[1], " ", "w", ".">>, <<emojis[2], " ", "w", "!">>,
                             <<emojis[3], " ", "w", "?">> >>

\* a text whose split starts with an empty sentence and has a seventh one
C12_Witness ==
    /\ pc = "bulleted"
    /\ Len(sentences) >= 7
    /\ sentences[1] = <<>>
    /\ sentences[7] # <<>>
    /\ Len(SplitLines(rendered)) >= 6


\* ------------------------------------------------ claims on the publish loop
PublishedCalls == {k \in 1..Len(calls) : calls[k].outcome = "Published"}

\* C13, as stated: after every turn of the loop of main, and so at the end of
\* the run, success_count is the number of papers of this run for which
\* create_hypothesis and edit_hypothesis both succeeded.
C13_CountsBothSucceeded ==
    pc \in {"loop", "summary", "aborted"} =>
        success_count = Cardinality({k \in 1..Len(calls) : BothSucceeded(calls[k])})

\* C13, amended: after every turn of the loop of main, and so at the end of
\* the run, success_count is the number of papers of this run for which create
\* and edit both succeeded and the ledger write then completed; such a paper
\* raises the counter by 1, a Skipped, ProblemFailed or PublishFailed one, or
\* one whose ledger write raised, leaves it.
C13_CountsPublished ==
    pc \in {"loop", "summary", "aborted"} =>
        /\ success_count = Cardinality(PublishedCalls)
        /\ \A k \in PublishedCalls : BothSucceeded(calls[k])
        /\ \A k \in 1..Len(calls) :
              calls[k].outcome \in {"Skipped", "ProblemFailed", "PublishFailed"}
                  => ~BothSucceeded(calls[k])

\* a run that ends with one paper published and one that failed
C13_Witness ==
    /\ pc = "summary"
    /\ Len(calls) = 2
    /\ success_count = 1
    /\ \E k \in 1..2 : calls[k].outcome \in {"Skipped", "ProblemFailed", "PublishFailed"}

\* C14: a process_paper call whose extract_problem answers None or "" ends
\* without a create_hypothesis or edit_hypothesis call and leaves the ledger
\* file and the in-memory set as they were.
C14_NoPublishAfterFailedExtraction ==
    [][ (pc = "loop" /\ Len(calls') = Len(calls) + 1
         /\ calls'[Len(calls')].extract \in {"none", "empty"})
        => /\ calls'[Len(calls')].create = "-"
           /\ calls'[Len(calls')].edit = "-"
           /\ UNCHANGED <<ledgerVars, published, recorded, success_count>> ]_vars

\* a call whose extraction came back empty, after a call that published
C14_Witness ==
    /\ Len(calls) = 2
    /\ calls[1].outcome = "Published"
    /\ calls[2].extract = "empty"
    /\ calls[2].outcome = "ProblemFailed"

\* C15: for a paper whose title is in the in-memory set, the ranking makes no
\* author and no H-index lookup and does not keep the paper, and the loop of
\* main gets no extraction, create or edit call out of process_paper; the
\* ledger file and the in-memory set stay as they were in both.
C15_KnownTitleCostsNothing ==
    [][ /\ (pc = "rank" /\ i <= Len(papers) /\ papers[i].title \in processed_titles)
            => /\ pc' # "scan"
               /\ ~lastRank'.looked
               /\ lastRank'.hLookups = 0
               /\ valid_papers' = valid_papers
               /\ UNCHANGED ledgerVars
        /\ (pc = "loop" /\ idx <= Len(papers) /\ papers[idx].title \in processed_titles)
            => /\ UNCHANGED <<ledgerVars, success_count, published, recorded>>
               /\ \/ calls' = calls
                  \/ /\ calls' = Append(calls, calls'[Len(calls')])
                     /\ calls'[Len(calls')].outcome = "Skipped"
                     /\ NoCalls(calls'[Len(calls')]) ]_vars

\* the ranking of a later run has just passed over a title the ledger holds
C15_Witness ==
    /\ run > 1
    /\ lastRank.paper.title \in processed_titles
    /\ ~lastRank.looked
    /\ lastRank.paper \notin Range(valid_papers)


SameTitle(j, k) == calls[j].paper.title = calls[k].paper.title
PublishesOf(t) ==
    {k \in 1..Len(calls) : calls[k].paper.title = t /\ BothSucceeded(calls[k])}

\* C21, as stated: within one run of main no title is published twice: once
\* a record's create and edit have both succeeded, every later record of the
\* ranked list with the same title is Skipped with no extraction, create or
\* edit call.
C21_NoTitlePublishedTwiceInRun ==
    /\ \A t \in TitleSet : Cardinality(PublishesOf(t)) <= 1
    /\ \A j \in 1..Len(calls) : \A k \in (j + 1)..Len(calls) :
          (SameTitle(j, k) /\ BothSucceeded(calls[j]))
              => calls[k].outcome = "Skipped" /\ NoCalls(calls[k])

\* C21, amended: within one run of main, once a record has been Published
\* and its title recorded (save_title returned), every later record of the
\* ranked list with the same title is Skipped with no extraction, create or
\* edit call; a title is published twice in the run only when the ledger
\* write of its earlier publish raised.
C21_NoTitlePublishedTwiceAfterRecorded ==
    /\ \A j \in 1..Len(calls) : \A k \in (j + 1)..Len(calls) :
          (SameTitle(j, k) /\ calls[j].outcome = "Published")
              => calls[k].outcome = "Skipped" /\ NoCalls(calls[k])
    /\ \A t \in TitleSet :
          Cardinality(PublishesOf(t)) > 1
              => \E j \in PublishesOf(t) : calls[j].outcome = "SaveRaised"

\* a run over two records with one title: the first Published, the second
\* Skipped, one success counted
C21_Witness ==
    /\ pc = "summary"
    /\ Len(calls) = 2
    /\ SameTitle(1, 2)
    /\ calls[1].outcome = "Published"
    /\ calls[2].outcome = "Skipped"
    /\ NoCalls(calls[2])
    /\ success_count = 1

\* --------------------------------------------------- claims on the ranking
\* the positions of the authors the scan can ask about, and of those whose
\* H-index reaches the threshold
WithId == {k \in 1..Len(authors_data) : authors_data[k].authorId # ""}
Reaching ==
    {k \in WithId : authors_data[k].h # NoH /\ authors_data[k].h >= min_h_index}
FirstReaching == CHOOSE k \in Reaching : \A x \in Reaching : k <= x

\* C16: the authors of a paper are asked in list order up to the first whose
\* H-index is >= min_h_index: that score becomes the paper's max_h_index, the
\* paper is appended to the candidates once and no later author is asked;
\* with no such author every author with an id is asked and the paper is not
\* appended. A ranking turn without a scan appends nothing.
C16_FirstQualifyingAuthorDecides ==
    [][ /\ pc = "scan" =>
             IF Reaching = {}
             THEN /\ valid_papers' = valid_papers
                  /\ ~lastRank'.added
                  /\ lastRank'.hLookups = Cardinality(WithId)
             ELSE /\ valid_papers' =
                        Append(valid_papers,
                               [papers[i] EXCEPT
                                   !.max_h_index = authors_data[FirstReaching].h])
                  /\ lastRank'.added
                  /\ lastRank'.hLookups =
                        Cardinality({k \in WithId : k <= FirstReaching})
        /\ pc = "rank" => valid_papers' = valid_papers ]_vars

\* a paper was kept on its first author's score with a later author not asked
C16_Witness ==
    /\ lastRank.added
    /\ lastRank.unasked
    /\ lastRank.hLookups = 1
    /\ valid_papers # <<>>
    /\ valid_papers[Len(valid_papers)] = lastRank.paper

\* the papers of list s that carry key h, in the order of s
WithKey(s, h) == SelectSeq(s, LAMBDA p : p.max_h_index = h)
IsPrefix(s, t) == Len(s) <= Len(t) /\ s = SubSeq(t, 1, Len(s))

\* C17: among the returned papers with the same max_h_index the order is the
\* one they were kept in, which is their order in the input list (valid_papers
\* is appended to in input order): the descending sort is stable.
C17_TiesKeepInputOrder ==
    RankReturned =>
        \A h \in HVals : IsPrefix(WithKey(papers, h), WithKey(valid_papers, h))

\* two different papers with the same key were returned
C17_Witness ==
    /\ RankReturned
    /\ Len(papers) = 2
    /\ papers[1].max_h_index = papers[2].max_h_index
    /\ papers[1].title # papers[2].title
    /\ papers = valid_papers


\* ---------------------------------------- claims on the scan of an abstract
\* the lines one of the four rules gives for sentence s
LabelLines(s) == WithRest(<<<<>>, Bold(<<s[1], ":">>), <<>>>>, RestOf(AfterLabel(s)))
ColonLines(s) ==
    WithRest(<<Bold(SubSeq(s, 1, ColonAt(s)))>>, RestOf(SubSeq(s, ColonAt(s) + 1, Len(s))))
UpperLines(s) == WithRest(<<Bold(<<s[1]>>)>>, RestOf(Tail(s)))
\* the index the scan stands at after its k-th iteration
IndexAfter(k) == IF k < Len(scanned) THEN scanned[k + 1].at ELSE si

\* C18: a sentence that does not open a Results block is rendered by one
\* rule, the first that applies of: section label, colon-headed phrase,
\* all-caps lead-in followed by white space, verbatim; and the scan goes on
\* with the next sentence.
C18_OneRuleByPriority ==
    \A k \in 1..Len(scanned) :
        LET e == scanned[k]
            s == sentences[e.at]
        IN  ~StartsResults(s) =>
              /\ e.out = IF MatchLabel(s) THEN LabelLines(s)
                         ELSE IF MatchColon(s) THEN ColonLines(s)
                         ELSE IF MatchUpper(s) THEN UpperLines(s)
                         ELSE <<s>>
              /\ e.upto = e.at
              /\ IndexAfter(k) = e.at + 1

\* a finished scan in which a sentence with an all-caps lead-in and a colon
\* was rendered by the colon rule, and another sentence verbatim
C18_Witness ==
    /\ pc = "formatted"
    /\ \E k \in 1..Len(scanned) :
          /\ MatchUpper(sentences[scanned[k].at])
          /\ MatchColon(sentences[scanned[k].at])
          /\ scanned[k].out = ColonLines(sentences[scanned[k].at])
    /\ \E k \in 1..Len(scanned) :
          /\ sentences[scanned[k].at] # <<>>
          /\ scanned[k].out = <<sentences[scanned[k].at]>>


\* the iterations so far have used the sentences 1 .. si - 1, each once and in
\* order: every iteration starts where the one before it ended, renders its
\* first sentence itself and, only when that one opens a Results block, puts
\* the further ones in that block
ConsumedInOrder ==
    /\ \A k \in 1..Len(scanned) :
          /\ scanned[k].at = IF k = 1 THEN 1 ELSE scanned[k - 1].upto + 1
          /\ scanned[k].at <= scanned[k].upto
          /\ scanned[k].upto <= Len(sentences)
          /\ scanned[k].upto > scanned[k].at => StartsResults(sentences[scanned[k].at])
    /\ si = IF scanned = <<>> THEN 1 ELSE scanned[Len(scanned)].upto + 1
    /\ pc = "formatted" => si = Len(sentences) + 1

\* C20: the scan ends for every sentence sequence: while it runs there is a
\* sentence left to scan, and every iteration moves the index forward, which
\* never exceeds the number of sentences by more than one. The index never
\* decreases and ends equal to the number of sentences (one past the last,
\* counted from 1); every sentence is used once, in input order, by the main
\* loop or in one Results block.
C20_ScanConsumesEverySentenceOnce ==
    [][ /\ si' >= si
        /\ pc = "format" => si' > si
        /\ si' <= Len(sentences') + 1
        /\ pc' = "format" => si' <= Len(sentences')
        /\ ConsumedInOrder' ]_vars

\* a finished scan of at least three sentences, one of them inside a Results
\* block and one rendered by the main loop after the block
C20_Witness ==
    /\ pc = "formatted"
    /\ Len(sentences) >= 3
    /\ si = Len(sentences) + 1
    /\ \E k \in 1..Len(scanned) :
          /\ scanned[k].upto > scanned[k].at
          /\ k < Len(scanned)

\* ----------------------------------------------- claims on the pagination
\* C19: whatever the source answers, the cursor of each further request is
\* greater than the cursor of the request before it, so that no cursor is
\* requested twice and the loop ends.
C19_CursorStrictlyIncreases ==
    [][ (pc = "fetch" /\ pc' = "fetch") => cursor' > cursor ]_vars

====
